---- MODULE Spec2Model ----
(***************************************************************************)
(* Model of amptorch/delta_models/morse.py: class morse_potential.          *)
(*                                                                         *)
(* Construction (__init__, get_params), the pairwise Morse kernel          *)
(* (image_pred) and the batch predictor (morse_pred) are modelled as one   *)
(* state machine.  Floating-point values are modelled as exact rationals   *)
(* extended with +inf, -inf and nan, because numpy arithmetic never raises *)
(* on a division by zero: it yields inf or nan and goes on.                *)
(***************************************************************************)
EXTENDS Integers, Sequences, FiniteSets, TLC

(***************************************************************************)
(* Numbers.  A value is a pair <<n, d>>: the rational n/d in lowest terms  *)
(* with d > 0, or <<1,0>> = +inf, <<-1,0>> = -inf, <<0,0>> = nan.          *)
(***************************************************************************)
NaN == <<0, 0>>
PInf == <<1, 0>>
NInf == <<-1, 0>>

IAbs(i) == IF i < 0 THEN -i ELSE i
Sgn(i) == IF i > 0 THEN 1 ELSE IF i < 0 THEN -1 ELSE 0

RECURSIVE Gcd(_, _)
Gcd(a, b) == IF b = 0 THEN a ELSE Gcd(b, a % b)

\* the value n/d; n/0 is inf with the sign of n, 0/0 is nan
Reduce(n, d, g) == <<(Sgn(d) * n) \div g, IAbs(d) \div g>>
Q(n, d) == IF d = 0 THEN <<Sgn(n), 0>> ELSE Reduce(n, d, Gcd(IAbs(n), IAbs(d)))

Int2Num(i) == <<i, 1>>
Zero == <<0, 1>>
One == <<1, 1>>
Two == <<2, 1>>

IsNaN(x) == x = NaN
IsInf(x) == x[2] = 0 /\ x[1] # 0
IsFinite(x) == x[2] # 0
IsZero(x) == x[2] # 0 /\ x[1] = 0

(***************************************************************************)
(* Arithmetic as numpy's float64 does it outside the finite range: no      *)
(* operation raises.  Each operator binds its arguments before it uses     *)
(* them, so that an argument expression is evaluated once.                 *)
(***************************************************************************)
NegV(x) == <<-x[1], x[2]>>
Neg(x) == CHOOSE z \in {NegV(a) : a \in {x}} : TRUE

AddFinite(x, y, g) ==
    Q(x[1] * (y[2] \div g) + y[1] * (x[2] \div g), (x[2] \div g) * y[2])

AddV(x, y) ==
    IF IsNaN(x) \/ IsNaN(y) THEN NaN
    ELSE IF IsInf(x) /\ IsInf(y) THEN (IF x = y THEN x ELSE NaN)
    ELSE IF IsInf(x) THEN x
    ELSE IF IsInf(y) THEN y
    ELSE AddFinite(x, y, Gcd(x[2], y[2]))

Add(x, y) == CHOOSE z \in {AddV(a, b) : a \in {x}, b \in {y}} : TRUE

Sub(x, y) == Add(x, Neg(y))

MulFinite(x, y, g1, g2) ==
    Q((x[1] \div g1) * (y[1] \div g2), (x[2] \div g2) * (y[2] \div g1))

MulV(x, y) ==
    IF IsNaN(x) \/ IsNaN(y) THEN NaN
    ELSE IF IsInf(x) \/ IsInf(y)
         THEN (IF IsZero(x) \/ IsZero(y) THEN NaN ELSE <<Sgn(x[1]) * Sgn(y[1]), 0>>)
    ELSE MulFinite(x, y, Gcd(IAbs(x[1]), y[2]), Gcd(IAbs(y[1]), x[2]))

Mul(x, y) == CHOOSE z \in {MulV(a, b) : a \in {x}, b \in {y}} : TRUE

\* 1/x as numpy computes it: 1/0 = inf (with a warning), 1/inf = 0
InvV(x) ==
    IF IsNaN(x) THEN NaN
    ELSE IF IsInf(x) THEN Zero
    ELSE IF IsZero(x) THEN PInf
    ELSE Q(Sgn(x[1]) * x[2], IAbs(x[1]))

Inv(x) == CHOOSE z \in {InvV(a) : a \in {x}} : TRUE

Div(x, y) == Mul(x, Inv(y))

\* np.abs
AbsV(x) == <<IAbs(x[1]), x[2]>>
Abs(x) == CHOOSE z \in {AbsV(a) : a \in {x}} : TRUE

Floor(x) == x[1] \div x[2]

RECURSIVE Pow2(_)
Pow2(k) == IF k = 0 THEN One
           ELSE IF k > 0 THEN MulV(Two, Pow2(k - 1))
           ELSE MulV(Pow2(k + 1), <<1, 2>>)

\* np.log(2) on the model's grid of one-decimal values
Ln2 == <<7, 10>>

\* np.exp: exact at the grid points k*ln2 (exp(0) = 1, exp(ln2) = 2) and
\* interpolated between them by 2^k * (1 + (2f + f^2)/3), f the fraction of
\* x/ln2; exp(-inf) = 0, exp(inf) = inf, exp(nan) = nan
Interpolate(k, f) ==
    MulV(Pow2(k), AddV(One, MulV(AddV(MulV(Two, f), MulV(f, f)), <<1, 3>>)))
Exp2Parts(t, k) == Interpolate(k, AddV(t, <<-k, 1>>))
Exp2(t) == Exp2Parts(t, Floor(t))

ExpV(x) ==
    IF IsNaN(x) THEN NaN
    ELSE IF x = PInf THEN PInf
    ELSE IF x = NInf THEN Zero
    ELSE Exp2(MulV(x, InvV(Ln2)))

Exp(x) == CHOOSE z \in {ExpV(a) : a \in {x}} : TRUE

\* the least k with k*k >= n
RECURSIVE Root(_, _)
Root(n, k) == IF k * k >= n THEN k ELSE Root(n, k + 1)
ISqrt(n) == Root(n, 0)
IsSquare(n) == ISqrt(n) * ISqrt(n) = n

\* np.sqrt of a non-negative value whose numerator and denominator are squares
SqrtV(x) ==
    IF IsNaN(x) THEN NaN
    ELSE IF IsInf(x) THEN x
    ELSE Q(ISqrt(x[1]), ISqrt(x[2]))

Sqrt(x) == CHOOSE z \in {SqrtV(a) : a \in {x}} : TRUE

LessV(x, y) == x[1] * y[2] < y[1] * x[2]
Less(x, y) == \E a \in {x}, b \in {y} : LessV(a, b)

(***************************************************************************)
(* Vectors (rows of positions, forces, d) are triples of numbers.          *)
(***************************************************************************)
ZeroVec == <<Zero, Zero, Zero>>
VAddV(u, v) == <<AddV(u[1], v[1]), AddV(u[2], v[2]), AddV(u[3], v[3])>>
VAdd(u, v) == CHOOSE z \in {VAddV(a, b) : a \in {u}, b \in {v}} : TRUE
VNegV(u) == <<NegV(u[1]), NegV(u[2]), NegV(u[3])>>
VSub(u, v) == CHOOSE z \in {VAddV(a, VNegV(b)) : a \in {u}, b \in {v}} : TRUE
VScaleV(s, v) == <<MulV(s, v[1]), MulV(s, v[2]), MulV(s, v[3])>>
VScale(s, v) == CHOOSE z \in {VScaleV(a, b) : a \in {s}, b \in {v}} : TRUE

RECURSIVE SumSeqV(_)
SumSeqV(s) == IF s = << >> THEN Zero ELSE AddV(Head(s), SumSeqV(Tail(s)))
SumSeq(s) == CHOOSE z \in {SumSeqV(a) : a \in {s}} : TRUE

RECURSIVE VSumSeqV(_)
VSumSeqV(s) == IF s = << >> THEN ZeroVec ELSE VAddV(Head(s), VSumSeqV(Tail(s)))
VSumSeq(s) == CHOOSE z \in {VSumSeqV(a) : a \in {s}} : TRUE

\* (d ** 2).sum() for one row d
Norm2V(dv) == AddV(AddV(MulV(dv[1], dv[1]), MulV(dv[2], dv[2])), MulV(dv[3], dv[3]))
Norm2(dv) == CHOOSE z \in {Norm2V(a) : a \in {dv}} : TRUE

(***************************************************************************)
(* Inputs.  Chemical symbols in the order np.unique sorts them.            *)
(***************************************************************************)
Symbols == <<"Cu", "H">>
SymbolSet == {Symbols[i] : i \in 1..Len(Symbols)}

\* bounds of the model
MaxAtoms == 2
MaxBatch == 2

\* one row of morse_params/{elem}{elem}.csv, or no file
Row(re_, De_, a_) == [present |-> TRUE, re |-> re_, De |-> De_, a |-> a_]
NoRow == [present |-> FALSE, re |-> NaN, De |-> NaN, a |-> NaN]

TableChoices ==
    [Cu |-> {NoRow, Row(<<3, 2>>, <<1, 1>>, <<1, 1>>), Row(<<3, 2>>, <<-1, 1>>, <<1, 1>>)},
     H  |-> {NoRow, Row(<<3, 4>>, <<2, 1>>, <<2, 1>>)}]

Tables == {t \in [SymbolSet -> UNION {TableChoices[e] : e \in SymbolSet}] :
             \A e \in SymbolSet : t[e] \in TableChoices[e]}

Combos == {"mean", "yang", "other"}

\* atom positions lie on the corners of a 0.8 x 1.5 rectangle (diagonal 1.7)
Origin == <<Zero, Zero, Zero>>
Corners == <<Origin, <<(<<4, 5>>), Zero, Zero>>,
             <<Zero, (<<3, 2>>), Zero>>, <<(<<4, 5>>), (<<3, 2>>), Zero>> >>

ZeroCell == <<ZeroVec, ZeroVec, ZeroVec>>
XCell == << <<(<<3, 2>>), Zero, Zero>>, ZeroVec, ZeroVec >>
Cells == {ZeroCell, XCell}

Cutoffs == {<<1, 1>>, <<2, 1>>}

Image(sy, ps, cl) == [symbols |-> sy, positions |-> ps, cell |-> cl]

\* the placements of n atoms on the corners: the first on the origin, the
\* atoms in the order of their corners, two atoms on one corner allowed
Placements(n) ==
    {[k \in 1..n |-> Corners[c[k]]] :
        c \in {q \in [1..n -> 1..Len(Corners)] :
                 /\ q[1] = 1
                 /\ \A k \in 1..(n - 1) : q[k] <= q[k + 1]}}

\* the images of n atoms
ImagesOf(n) ==
    {Image(sy, ps, cl) : sy \in [1..n -> SymbolSet], ps \in Placements(n), cl \in Cells}

ImageSet == UNION {ImagesOf(n) : n \in 1..MaxAtoms}

\* a small catalogue for batches: Cu2 at the Cu equilibrium distance, CuH, H
Cu2 == Image(<<"Cu", "Cu">>, <<Origin, <<Zero, (<<3, 2>>), Zero>> >>, ZeroCell)
CuH == Image(<<"Cu", "H">>, <<Origin, <<(<<4, 5>>), Zero, Zero>> >>, ZeroCell)
H1 == Image(<<"H">>, <<Origin>>, ZeroCell)
Catalogue == <<Cu2, CuH, H1>>
CatalogueSet == {Catalogue[i] : i \in 1..Len(Catalogue)}

(***************************************************************************)
(* The neighbor list of an image (NeighborlistCalculator, amptorch.gaussian*)
(* over ase.neighborlist): for every atom, every other atom and every      *)
(* periodic image within the cutoff, both directions of a pair listed.     *)
(* Atoms are numbered from 1 here, from 0 in the source.                   *)
(***************************************************************************)
NoOffset == <<0, 0, 0>>
OffsetsOf(cl) == IF cl = ZeroCell THEN <<NoOffset>>
                 ELSE << <<-1, 0, 0>>, NoOffset, <<1, 0, 0>> >>

\* np.dot(offset, cell) for one offset row
DotV(off, cl) ==
    [c \in 1..3 |-> SumSeqV([m \in 1..3 |-> MulV(Int2Num(off[m]), cl[m][c])])]
Dot(off, cl) == CHOOSE z \in {DotV(a, b) : a \in {off}, b \in {cl}} : TRUE

Displacement(image, i, j, off) ==
    VSub(VAdd(image.positions[j], Dot(off, image.cell)), image.positions[i])

Pairs(n, offs, m) ==
    [k \in 1..(n * m) |-> <<((k - 1) \div m) + 1, offs[((k - 1) % m) + 1]>>]

Candidates(image) ==
    Pairs(Len(image.symbols), OffsetsOf(image.cell), Len(OffsetsOf(image.cell)))

Within(image, cut, i, c) ==
    /\ ~(c[1] = i /\ c[2] = NoOffset)
    /\ Less(Norm2(Displacement(image, i, c[1], c[2])), Mul(cut, cut))

Unzip(sel) ==
    [neighbors |-> [k \in 1..Len(sel) |-> sel[k][1]],
     offsets |-> [k \in 1..Len(sel) |-> sel[k][2]]]

NeighborsOf(image, cut, i) ==
    Unzip(SelectSeq(Candidates(image), LAMBDA c : Within(image, cut, i, c)))

\* neighborlist.calculate_items(hashed_images): keyed by the image's content
CalculateItems(imgs, cut) ==
    [im \in {imgs[i] : i \in 1..Len(imgs)} |->
        [i \in 1..Len(im.symbols) |-> NeighborsOf(im, cut, i)]]

\* the squared distances of the listed pairs of the image
ListedNorm2(image, cut) ==
    UNION {{Norm2(Displacement(image, i, nb.neighbors[k], nb.offsets[k])) :
               k \in 1..Len(nb.neighbors)} :
           <<i, nb>> \in {<<j, NeighborsOf(image, cut, j)>> : j \in 1..Len(image.symbols)}}

\* every listed pair of the image has a rational distance
Measurable(image, cut) ==
    \A n2 \in ListedNorm2(image, cut) : IsSquare(n2[1]) /\ IsSquare(n2[2])

(***************************************************************************)
(* The kernel's arithmetic, image_pred lines 46-97.                        *)
(***************************************************************************)
\* the fixed triple of the "mean" rule, on the model's one-decimal grid
MeanD == <<10, 1>>
MeanRe == <<17, 10>>
MeanA == <<3, 2>>
MeanSig == Sub(MeanRe, Div(Ln2, MeanA))

\* a local that holds a scalar or an array with one entry per neighbor
Scalar(x) == [scalar |-> TRUE, v |-> <<x>>]
Array(s) == [scalar |-> FALSE, v |-> s]
At(x, k) == IF x.scalar THEN x.v[1] ELSE x.v[k]

\* one row [re, D, sig] of the per-atom parameter array
ParamRow(rec) == <<rec.re, rec.De, Sub(rec.re, Div(Ln2, rec.a))>>

\* the well depths as read for the reference atom and for a neighbor
D_1Of(row) == Abs(row[2])
D_nOf(row) == row[2]

YangD(D_1, D_n) == Div(Mul(Mul(Two, D_1), D_n), Add(D_1, D_n))
YangLen(x_1, x_n) ==
    Div(Mul(Mul(x_1, x_n), Add(x_1, x_n)), Add(Mul(x_1, x_1), Mul(x_n, x_n)))

\* the locals D, re, sig after the combination-rule branch
CombineD(cmb, old, p, a, nbrs) ==
    IF cmb = "mean" THEN Scalar(MeanD)
    ELSE IF cmb = "yang"
         THEN Array([k \in 1..Len(nbrs) |-> YangD(D_1Of(p[a]), D_nOf(p[nbrs[k]]))])
    ELSE old

CombineRe(cmb, old, p, a, nbrs) ==
    IF cmb = "mean" THEN Scalar(MeanRe)
    ELSE IF cmb = "yang"
         THEN Array([k \in 1..Len(nbrs) |-> YangLen(p[a][1], p[nbrs[k]][1])])
    ELSE old

CombineSig(cmb, old, p, a, nbrs) ==
    IF cmb = "mean" THEN Scalar(MeanSig)
    ELSE IF cmb = "yang"
         THEN Array([k \in 1..Len(nbrs) |-> YangLen(p[a][3], p[nbrs[k]][3])])
    ELSE old

\* r, the two exponentials, the pair energy and the pair force of one neighbor
Dist(dv) == Sqrt(Norm2(dv))
CoefC(rek, sigk) == Div(Ln2, Sub(Div(rek, sigk), One))
Expo(rek, sigk, rk) == Sub(Div(rk, sigk), Div(rek, sigk))
Exp2C(rek, sigk, rk) == Exp(Mul(Mul(Neg(Two), CoefC(rek, sigk)), Expo(rek, sigk, rk)))
Exp1C(rek, sigk, rk) == Exp(Mul(Neg(CoefC(rek, sigk)), Expo(rek, sigk, rk)))

PairEnergy(Dk, rek, sigk, rk) ==
    Mul(Dk, Sub(Exp2C(rek, sigk, rk), Mul(Two, Exp1C(rek, sigk, rk))))

PairForce(Dk, rek, sigk, rk, dv) ==
    VScale(Mul(Mul(Div(Mul(Mul(Two, Dk), CoefC(rek, sigk)), sigk), Inv(rk)),
               Sub(Exp2C(rek, sigk, rk), Exp1C(rek, sigk, rk))),
           dv)

\* forces[a1] -= f.sum(axis=0)
SubtractFromReference(frc, a, ff) == [frc EXCEPT ![a] = VSub(frc[a], VSumSeq(ff))]

\* for a2, f2 in zip(neighbors, f): forces[a2] += f2
RECURSIVE AddToNeighbors(_, _, _)
AddToNeighbors(frc, nbrs, ff) ==
    IF nbrs = << >> THEN frc
    ELSE AddToNeighbors([frc EXCEPT ![Head(nbrs)] = VAdd(frc[Head(nbrs)], Head(ff))],
                        Tail(nbrs), Tail(ff))

(***************************************************************************)
(* State.                                                                  *)
(*   table, images, cutoff, combo_arg, data: the parameter files on disk,  *)
(*     the constructor's arguments and the argument of morse_pred;         *)
(*   pc: where the program is; exception: what was raised, if anything;    *)
(*   get_params' locals: elem_i, gp_params, element_params;                *)
(*   the object's fields: params, combo, neighborlist;                     *)
(*   morse_pred's locals: img_i, predicted_energies, predicted_forces,     *)
(*     num_atoms, and what it returned: result;                            *)
(*   image_pred's locals: atom_params (the array params), natoms,          *)
(*     image_neighbors, energy, forces, a1, and D, re, sig, r,             *)
(*     atom_energy, f as the last pass of the loop left them.              *)
(***************************************************************************)
VARIABLES table, images, cutoff, combo_arg, data,
          pc, exception,
          elem_i, gp_params, element_params,
          params, combo, neighborlist,
          img_i, predicted_energies, predicted_forces, num_atoms, result,
          atom_params, natoms, image_neighbors, energy, forces, a1, D, re, sig,
          r, atom_energy, f

inputs == <<table, images, cutoff, combo_arg, data>>
gp_locals == <<elem_i, gp_params, element_params>>
fields == <<params, combo, neighborlist>>
mp_locals == <<img_i, predicted_energies, predicted_forces, num_atoms>>
ip_locals == <<atom_params, natoms, image_neighbors, energy, forces, a1, D, re, sig,
               r, atom_energy, f>>
vars == <<inputs, pc, exception, gp_locals, fields, mp_locals, result, ip_locals>>

Unbound == [bound |-> FALSE, re |-> NaN, De |-> NaN, a |-> NaN]
Bound(row) == [bound |-> TRUE, re |-> row.re, De |-> row.De, a |-> row.a]

EmptyDict == [e \in {} |-> Unbound]
NoResult == [returned |-> FALSE, energies |-> << >>, forces |-> << >>, num_atoms |-> << >>]
NoLocal == Scalar(NaN)

\* np.unique over the symbols of every atom of every image
UniqueElements(imgs) ==
    SelectSeq(Symbols, LAMBDA e : \E i \in 1..Len(imgs) :
                                     \E k \in 1..Len(imgs[i].symbols) : imgs[i].symbols[k] = e)

SeqsUpTo(S, n) == UNION {[1..m -> S] : m \in 0..n}

\* the batches of at most n different images out of S
Batches(S, n) == {s \in SeqsUpTo(S, n) : \A i, j \in 1..Len(s) : s[i] = s[j] => i = j}

\* one image of any shape, predicted alone, every parameter file present
InitKernel ==
    /\ cutoff \in Cutoffs
    /\ \E im \in ImageSet : images = <<im>>
    /\ Measurable(images[1], cutoff)
    /\ data = images
    /\ table \in {t \in Tables : \A e \in SymbolSet : t[e].present}

\* a data set out of the catalogue, a batch over the catalogue, any files
InitBatch ==
    /\ cutoff = Two
    /\ \E S \in (SUBSET CatalogueSet) \ {{}} :
           images = SelectSeq(Catalogue, LAMBDA im : im \in S)
    /\ \A i \in 1..Len(images) : Measurable(images[i], cutoff)
    /\ data \in Batches(CatalogueSet, MaxBatch)
    /\ table \in Tables

Init ==
    /\ InitKernel \/ InitBatch
    /\ combo_arg \in Combos
    /\ pc = "get_params"
    /\ exception = "none"
    /\ elem_i = 1
    /\ gp_params = EmptyDict
    /\ element_params = Unbound
    /\ params = EmptyDict
    /\ combo = "unset"
    /\ neighborlist = [im \in {} |-> << >>]
    /\ img_i = 0
    /\ predicted_energies = << >>
    /\ predicted_forces = << >>
    /\ num_atoms = << >>
    /\ result = NoResult
    /\ atom_params = << >>
    /\ natoms = 0
    /\ image_neighbors = << >>
    /\ energy = Zero
    /\ forces = << >>
    /\ a1 = 0
    /\ D = NoLocal
    /\ re = NoLocal
    /\ sig = NoLocal
    /\ r = << >>
    /\ atom_energy = << >>
    /\ f = << >>

\* an exception leaves every frame: the locals are gone, nothing is returned
Raise(exc) ==
    /\ pc' = "raised"
    /\ exception' = exc
    /\ img_i' = 0
    /\ predicted_energies' = << >>
    /\ predicted_forces' = << >>
    /\ num_atoms' = << >>
    /\ atom_params' = << >>
    /\ natoms' = 0
    /\ image_neighbors' = << >>
    /\ energy' = Zero
    /\ forces' = << >>
    /\ a1' = 0
    /\ D' = NoLocal
    /\ re' = NoLocal
    /\ sig' = NoLocal
    /\ r' = << >>
    /\ atom_energy' = << >>
    /\ f' = << >>

(***************************************************************************)
(* get_params: one pass of "for elem in elements".  A missing file only    *)
(* prints; the assignment params[elem] = element_params follows either way.*)
(***************************************************************************)
ReadCsv(old, row) == IF row.present THEN Bound(row) ELSE old

GetParamsElem ==
    /\ pc = "get_params"
    /\ elem_i <= Len(UniqueElements(images))
    /\ LET elem == UniqueElements(images)[elem_i]
           read == ReadCsv(element_params, table[elem])
       IN  IF read.bound
           THEN /\ element_params' = read
                /\ gp_params' = (elem :> read) @@ gp_params
                /\ elem_i' = elem_i + 1
                /\ UNCHANGED <<pc, exception, mp_locals, ip_locals>>
           ELSE /\ Raise("UnboundLocalError")
                /\ UNCHANGED gp_locals
    /\ UNCHANGED <<inputs, fields, result>>

\* the rule identifier as __init__ stores it
StoreCombo(c) == c

\* the rest of __init__ once get_params has returned
InitRest ==
    /\ pc = "get_params"
    /\ elem_i > Len(UniqueElements(images))
    /\ params' = gp_params
    /\ combo' = StoreCombo(combo_arg)
    /\ neighborlist' = CalculateItems(images, cutoff)
    /\ pc' = "ready"
    /\ UNCHANGED <<inputs, exception, gp_locals, mp_locals, result, ip_locals>>

(***************************************************************************)
(* morse_pred and image_pred.                                              *)
(***************************************************************************)
MorsePredCall ==
    /\ pc = "ready"
    /\ img_i' = 1
    /\ predicted_energies' = << >>
    /\ predicted_forces' = << >>
    /\ num_atoms' = << >>
    /\ pc' = "morse_pred"
    /\ UNCHANGED <<inputs, exception, gp_locals, fields, result, ip_locals>>

InitialEnergy == Zero
InitialForces(n) == [i \in 1..n |-> ZeroVec]

\* image_pred up to the loop over the atoms (lines 42-61)
ImagePredBegin ==
    /\ pc = "morse_pred"
    /\ img_i <= Len(data)
    /\ LET image == data[img_i]
           n == Len(image.symbols)
       IN  IF \E k \in 1..n : image.symbols[k] \notin DOMAIN params
           THEN Raise("KeyError")
           ELSE IF image \notin DOMAIN neighborlist
           THEN Raise("KeyError")
           ELSE /\ atom_params' = [k \in 1..n |-> ParamRow(params[image.symbols[k]])]
                /\ natoms' = n
                /\ image_neighbors' = neighborlist[image]
                /\ energy' = InitialEnergy
                /\ forces' = InitialForces(n)
                /\ a1' = 1
                /\ re' = Scalar(ParamRow(params[image.symbols[n]])[1])
                /\ D' = Scalar(ParamRow(params[image.symbols[n]])[2])
                /\ sig' = Scalar(ParamRow(params[image.symbols[n]])[3])
                /\ pc' = "image_pred"
                /\ UNCHANGED <<exception, mp_locals, r, atom_energy, f>>
    /\ UNCHANGED <<inputs, gp_locals, fields, result>>

\* d, one row per neighbor of atom a of the image
Rows(image, nb, a) ==
    [k \in 1..Len(nb.neighbors) |->
        VSub(VAdd(image.positions[nb.neighbors[k]], Dot(nb.offsets[k], image.cell)),
             image.positions[a])]

\* r = np.sqrt((d ** 2).sum(1))
Distances(dd) == [k \in 1..Len(dd) |-> Dist(dd[k])]

AtomEnergies(Dl, rel, sigl, rr) ==
    [k \in 1..Len(rr) |-> PairEnergy(At(Dl, k), At(rel, k), At(sigl, k), rr[k])]

AtomForces(Dl, rel, sigl, rr, dd) ==
    [k \in 1..Len(dd) |-> PairForce(At(Dl, k), At(rel, k), At(sigl, k), rr[k], dd[k])]

\* the assignments of one pass of "for a1 in range(natoms)"
AtomPass(nbrs, Dl, rel, sigl, rr, ae, ff) ==
    /\ D' = Dl
    /\ re' = rel
    /\ sig' = sigl
    /\ r' = rr
    /\ atom_energy' = ae
    /\ energy' = Add(energy, SumSeq(ae))
    /\ f' = ff
    /\ forces' = AddToNeighbors(SubtractFromReference(forces, a1, ff), nbrs, ff)
    /\ a1' = a1 + 1

AtomTerms(nbrs, dd, Dl, rel, sigl, rr) ==
    AtomPass(nbrs, Dl, rel, sigl, rr,
             AtomEnergies(Dl, rel, sigl, rr), AtomForces(Dl, rel, sigl, rr, dd))

AtomCombined(nbrs, dd, Dl, rel, sigl) ==
    AtomTerms(nbrs, dd, Dl, rel, sigl, Distances(dd))

\* one pass of "for a1 in range(natoms)" (lines 63-100)
ImagePredAtom ==
    /\ pc = "image_pred"
    /\ a1 <= natoms
    /\ AtomCombined(image_neighbors[a1].neighbors,
                    Rows(data[img_i], image_neighbors[a1], a1),
                    CombineD(combo, D, atom_params, a1, image_neighbors[a1].neighbors),
                    CombineRe(combo, re, atom_params, a1, image_neighbors[a1].neighbors),
                    CombineSig(combo, sig, atom_params, a1, image_neighbors[a1].neighbors))
    /\ UNCHANGED <<inputs, pc, exception, gp_locals, fields, mp_locals, result,
                   atom_params, natoms, image_neighbors>>

\* a list that grows at the front
PrependResult(lst, x) == <<x>> \o lst

\* predicted_energies.append(energy), and the like
AppendResult(lst, x) == Append(lst, x)

\* image_pred returns and morse_pred appends the three values (lines 101, 108-111)
ImagePredReturn ==
    /\ pc = "image_pred"
    /\ a1 > natoms
    /\ predicted_energies' = AppendResult(predicted_energies, energy)
    /\ predicted_forces' = AppendResult(predicted_forces, forces)
    /\ num_atoms' = AppendResult(num_atoms, natoms)
    /\ img_i' = img_i + 1
    /\ pc' = "morse_pred"
    /\ atom_params' = << >>
    /\ natoms' = 0
    /\ image_neighbors' = << >>
    /\ energy' = Zero
    /\ forces' = << >>
    /\ a1' = 0
    /\ D' = NoLocal
    /\ re' = NoLocal
    /\ sig' = NoLocal
    /\ r' = << >>
    /\ atom_energy' = << >>
    /\ f' = << >>
    /\ UNCHANGED <<inputs, exception, gp_locals, fields, result>>

MorsePredReturn ==
    /\ pc = "morse_pred"
    /\ img_i > Len(data)
    /\ result' = [returned |-> TRUE, energies |-> predicted_energies,
                  forces |-> predicted_forces, num_atoms |-> num_atoms]
    /\ pc' = "returned"
    /\ UNCHANGED <<inputs, exception, gp_locals, fields, mp_locals, ip_locals>>

Next ==
    \/ GetParamsElem
    \/ InitRest
    \/ MorsePredCall
    \/ ImagePredBegin
    \/ ImagePredAtom
    \/ ImagePredReturn
    \/ MorsePredReturn

Spec == Init /\ [][Next]_vars

(***************************************************************************)
(* What the properties speak of.                                           *)
(***************************************************************************)
Constructed == combo # "unset"
KnownRule == combo \in {"mean", "yang"}

\* the images whose prediction has been appended so far
Appended == 1..Len(predicted_energies)

NAtoms(im) == Len(im.symbols)
OwnRow(im, i) == ParamRow(params[im.symbols[i]])
Listed(im, i) == neighborlist[im][i]
NListed(im, i) == Len(Listed(im, i).neighbors)
Entries(im) == UNION {{<<i, k>> : k \in 1..NListed(im, i)} : i \in 1..NAtoms(im)}

\* the row of d of entry e = <<atom, place in its list>>
PairRowOf(im, i, j, off) == VSub(VAdd(im.positions[j], Dot(off, im.cell)), im.positions[i])
PairRow(im, e) ==
    CHOOSE z \in {PairRowOf(im, e[1], nb.neighbors[e[2]], nb.offsets[e[2]]) :
                     nb \in {Listed(im, e[1])}} : TRUE

\* the pair parameters [re, D, sig] of a reference row and a neighbor row
PairParamsOf(own, other, last) ==
    IF combo = "mean" THEN <<MeanRe, MeanD, MeanSig>>
    ELSE IF combo = "yang"
         THEN <<YangLen(own[1], other[1]), YangD(Abs(own[2]), other[2]),
                YangLen(own[3], other[3])>>
    ELSE last

PairParams(im, e) ==
    CHOOSE z \in {PairParamsOf(own, other, last) :
                     own \in {OwnRow(im, e[1])},
                     other \in {OwnRow(im, Listed(im, e[1]).neighbors[e[2]])},
                     last \in {OwnRow(im, NAtoms(im))}} : TRUE

EntryEnergyOf(p, rk) == PairEnergy(p[2], p[1], p[3], rk)
EntryEnergy(im, e) ==
    CHOOSE z \in {EntryEnergyOf(p, rk) :
                     p \in {PairParams(im, e)}, rk \in {Dist(PairRow(im, e))}} : TRUE
EntryForceOf(p, rk, dv) == PairForce(p[2], p[1], p[3], rk, dv)
EntryForce(im, e) ==
    CHOOSE z \in {EntryForceOf(p, Dist(dv), dv) :
                     p \in {PairParams(im, e)}, dv \in {PairRow(im, e)}} : TRUE

\* every entry's energy and force, by atom and place in its list
EntryEnergies(im) ==
    [i \in 1..NAtoms(im) |-> [k \in 1..NListed(im, i) |-> EntryEnergy(im, <<i, k>>)]]
EntryForces(im) ==
    [i \in 1..NAtoms(im) |-> [k \in 1..NListed(im, i) |-> EntryForce(im, <<i, k>>)]]

\* the energy of an image by itself: every listed entry counted
EnergyFrom(ee) == SumSeq([i \in 1..Len(ee) |-> SumSeq(ee[i])])
ImageEnergy(im) == CHOOSE z \in {EnergyFrom(ee) : ee \in {EntryEnergies(im)}} : TRUE

\* the force on atom j of an image by itself: what its neighbors' entries add
\* to it less what its own entries take from it
ForceFrom(nl, ef, j) ==
    VSub(VSumSeq([i \in 1..Len(ef) |->
                     VSumSeq([k \in 1..Len(ef[i]) |->
                                 IF nl[i].neighbors[k] = j THEN ef[i][k] ELSE ZeroVec])]),
         VSumSeq(ef[j]))
ForcesFrom(nl, ef) == [j \in 1..Len(ef) |-> ForceFrom(nl, ef, j)]
ImageForces(im) ==
    CHOOSE z \in {ForcesFrom(nl, ef) : nl \in {neighborlist[im]}, ef \in {EntryForces(im)}} : TRUE

\* one direction of every listed pair: the entries i -> j with i < j, and of
\* an atom's own periodic images the one with the positive offset
Positive(off) == off[1] > 0 \/ (off[1] = 0 /\ (off[2] > 0 \/ (off[2] = 0 /\ off[3] > 0)))
OncePerPair(im, e) ==
    \/ e[1] < Listed(im, e[1]).neighbors[e[2]]
    \/ (e[1] = Listed(im, e[1]).neighbors[e[2]] /\ Positive(Listed(im, e[1]).offsets[e[2]]))

\* the pair energy taken once per unordered pair
OnceFrom(im, ee) ==
    SumSeq([i \in 1..Len(ee) |->
               SumSeq([k \in 1..Len(ee[i]) |->
                          IF OncePerPair(im, <<i, k>>) THEN ee[i][k] ELSE Zero])])
EnergyOncePerPair(im) ==
    CHOOSE z \in {OnceFrom(im, ee) : ee \in {EntryEnergies(im)}} : TRUE

\* the list of the image is full: each entry i -> j has its reverse j -> i
FullList(im) ==
    \A e \in Entries(im) :
        \E g \in Entries(im) :
            /\ g[1] = Listed(im, e[1]).neighbors[e[2]]
            /\ Listed(im, g[1]).neighbors[g[2]] = e[1]
            /\ Listed(im, g[1]).offsets[g[2]] = [c \in 1..3 |-> -Listed(im, e[1]).offsets[e[2]][c]]

NoPeriodicImages(im) == \A e \in Entries(im) : Listed(im, e[1]).offsets[e[2]] = NoOffset
ZeroDistance(im) == \E e \in Entries(im) : Norm2(PairRow(im, e)) = Zero

FiniteVec(v) == IsFinite(v[1]) /\ IsFinite(v[2]) /\ IsFinite(v[3])
Predictable(im) ==
    /\ im \in DOMAIN neighborlist
    /\ \A k \in 1..NAtoms(im) : im.symbols[k] \in DOMAIN params

\* the pass of image_pred's loop that has just ended, and its neighbors
Passed == pc = "image_pred" /\ a1 > 1
PassAtom == a1 - 1
PassNeighbors == image_neighbors[PassAtom].neighbors

(***************************************************************************)
(* The properties.                                                         *)
(***************************************************************************)

\* C1: with a full neighbor list the energy image_pred returns for an image
\* is the pair energy summed once per unordered pair, not twice.
C1_EnergyCountedOncePerPair ==
    \A i \in Appended :
        FullList(data[i]) => predicted_energies[i] = EnergyOncePerPair(data[i])

\* C2: without periodic images the forces image_pred returns sum to zero
\* over the atoms, component by component.
C2_ForcesSumToZero ==
    \A i \in Appended :
        NoPeriodicImages(data[i]) => VSumSeq(predicted_forces[i]) = ZeroVec

\* C3: under the mean or the yang rule, a neighbor at the combined
\* equilibrium distance (r = re) has pair energy -D and the zero force.
C3_WellMinimum ==
    (Passed /\ KnownRule) =>
        \A k \in 1..Len(r) :
            r[k] = At(re, k) =>
                atom_energy[k] = Neg(At(D, k)) /\ f[k] = ZeroVec

\* C4: no prediction is returned for an image that holds an element whose
\* parameter file was missing at construction.
C4_MissingElementFailsPrediction ==
    \A i \in Appended :
        \A k \in 1..NAtoms(data[i]) : table[data[i].symbols[k]].present

\* C5: an unknown combination rule is rejected at construction: no energy
\* is ever computed by an object whose rule is neither "mean" nor "yang".
C5_UnknownRuleRejected ==
    (Constructed /\ pc # "raised") => KnownRule

\* C6: an image with a listed pair at distance 0 is never given a result:
\* its prediction aborts.
C6_ZeroDistanceAborts ==
    \A i \in Appended : ~ZeroDistance(data[i])

\* C7: a failing configuration does not abort the batch: morse_pred still
\* returns, with the results of the configurations that can be predicted.
C7_FailureIsolated ==
    (Constructed /\ pc = "raised" /\ \E i \in 1..Len(data) : Predictable(data[i])) =>
        /\ result.returned
        /\ \A i \in 1..Len(data) : Predictable(data[i]) => i <= Len(result.energies)

\* C8: a batch that predicts successfully returns three lists as long as
\* the batch, in input order, the k-th entries being the energy, the forces
\* and the atom count of configuration k taken by itself.
C8_BatchAlignedAndIndependent ==
    pc = "returned" =>
        /\ Len(result.energies) = Len(data)
        /\ Len(result.forces) = Len(data)
        /\ Len(result.num_atoms) = Len(data)
        /\ \A k \in 1..Len(data) :
              /\ result.num_atoms[k] = NAtoms(data[k])
              /\ result.energies[k] = ImageEnergy(data[k])
              /\ result.forces[k] = ImageForces(data[k])

\* C8 witness: a returned batch of two configurations with different
\* energies and different atom counts.
C8_Witness ==
    /\ pc = "returned"
    /\ Len(data) = 2
    /\ result.energies[1] # result.energies[2]
    /\ result.num_atoms[1] # result.num_atoms[2]
    /\ IsFinite(result.energies[1])
    /\ result.energies[1] # Zero

\* C9: under the yang rule every well depth enters as its absolute value,
\* the neighbor's like the reference atom's.
C9_AbsoluteWellDepth ==
    (Passed /\ combo = "yang") =>
        \A k \in 1..Len(PassNeighbors) :
            At(D, k) = YangD(Abs(atom_params[PassAtom][2]),
                             Abs(atom_params[PassNeighbors[k]][2]))

\* C10: under the yang rule a pair of atoms with identical parameters gets
\* the element's own re and sig and its well depth |De|.
C10_YangSelfCombination ==
    (Passed /\ combo = "yang") =>
        \A k \in 1..Len(PassNeighbors) :
            atom_params[PassNeighbors[k]] = atom_params[PassAtom] =>
                /\ At(re, k) = atom_params[PassAtom][1]
                /\ At(sig, k) = atom_params[PassAtom][3]
                /\ At(D, k) = Abs(atom_params[PassAtom][2])

\* C11: get_params does not abort on a missing parameter file, whatever the
\* place of the element in the iteration, the first included: construction
\* finishes, and every element that has a file gets its own record.
C11_GetParamsContinues ==
    /\ exception # "UnboundLocalError"
    /\ Constructed =>
           \A e \in DOMAIN params : table[e].present => params[e] = Bound(table[e])
====
